---- MODULE Spec2Model ----
(***************************************************************************)
(* A model of skynet-accounts: the Stripe subscription reconciliation and  *)
(* tier assignment of package api, and the schema provisioning of package  *)
(* database.                                                               *)
(*                                                                         *)
(* Spec        calls of processSub and createStripeCustomer, each one      *)
(*             atomic call, on the users collection.                       *)
(* SpecTier    calls of assignTier, each one atomic call, on the users     *)
(*             collection and Stripe's customers.                          *)
(* SpecSchema  database.New / ensureDBSchema run by two processes against  *)
(*             one MongoDB database, one server command per step.          *)
(* SpecQuery   the aggregation pipelines of generateUploadsPipeline and    *)
(*             generateDownloadsPipeline, and count, run on a collection.  *)
(* SpecHook    calls of stripeWebhookHandler, each one atomic call.        *)
(* SpecRace    two calls of processSub for one user, the read of the user *)
(*             and the conditional UserSave of each a step of its own.    *)
(***************************************************************************)
EXTENDS Integers, Sequences, FiniteSets, TLC

VARIABLES
    users,      \* the "users" collection: user id -> stored document
    customers,  \* Stripe's side: customer id -> plan the customer is on
    call,       \* the handler call that ran last: its inputs, the state it started from, its result
    trace,      \* the storage and Stripe operations that call performed, in order
    dbColls,    \* MongoDB: the collections that exist
    dbIndexes,  \* MongoDB: the indexes that exist
    pc,         \* per process: where it is in database.New
    todo,       \* per process: the schema entries the range loop has not visited yet
    opErr,      \* per process: the error its last driver call returned ({} is nil)
    newErr,     \* per process: the error database.New returned
    handle,     \* per process: whether database.New returned a *DB
    provisioned,\* whether some call of database.New has returned nil
    second,     \* per process: whether provisioned held when its call of database.New began
    queried,    \* the uploads or downloads collection that is queried: its kind and documents
    query,      \* the query that ran last: its inputs and its result
    hook,       \* the webhook request handled last: its event and the response written
    recon       \* reconciliations in progress: what each has read and computed, and the writes made

billingVars == <<users, customers, call, trace>>
schemaVars == <<dbColls, dbIndexes, pc, todo, opErr, newErr, handle, provisioned, second>>
queryVars == <<queried, query>>
vars == <<users, customers, call, trace,
          dbColls, dbIndexes, pc, todo, opErr, newErr, handle, provisioned, second,
          queried, query, hook, recon>>

(***************************************************************************)
(* Bounds of the model.                                                    *)
(***************************************************************************)
\* period-end timestamps (epoch seconds) range over 0..MaxPeriodEnd
MaxPeriodEnd == 2

(***************************************************************************)
(* Tiers and plans.                                                        *)
(***************************************************************************)
TierFree == 1
TierPremium5 == 2
TierPremium20 == 3
TierPremium80 == 4
Tiers == {TierFree, TierPremium5, TierPremium20, TierPremium80}

\* stripePlans maps Stripe user plans to specific tiers.
stripePlans ==
    ("prod_J2FBsxvEl4VoUK" :> TierFree) @@
    ("prod_J06Q7nJH3HJcYN" :> TierPremium5) @@
    ("prod_J06Qu7zg1unO8R" :> TierPremium20) @@
    ("prod_J06QbGjCvmZQGZ" :> TierPremium80)

\* tierForPlan without the fallback: a product missing from the map yields
\* the zero value of the lookup
tierForPlan_NoFallback(productID) ==
    IF productID \in DOMAIN stripePlans THEN stripePlans[productID] ELSE 0

\* tierForPlan that resolves every product to the free tier
tierForPlan_AlwaysFree(productID) == TierFree

\* tier, exists := stripePlans[id]; if !exists { tier = database.TierFree }
tierForPlan(productID) ==
    IF productID \in DOMAIN stripePlans THEN stripePlans[productID] ELSE TierFree

\* planForTier without the test tier == t: the plan the iteration meets first
planForTier_FirstPlan(t) == DOMAIN stripePlans

\* planForTier ranges over the map in Go's unspecified iteration order and
\* returns the first plan whose tier is t, "" when there is none: the set of
\* values a call can return.
planForTier(t) ==
    IF \E plan \in DOMAIN stripePlans : stripePlans[plan] = t
    THEN {plan \in DOMAIN stripePlans : stripePlans[plan] = t}
    ELSE {""}

(***************************************************************************)
(* time.Time: the instant and the location it carries. Go's != on two      *)
(* time.Time values compares both.                                         *)
(***************************************************************************)
\* time.Unix(sec, 0): the instant, in the Local location
TimeUnix(sec) == [sec |-> sec, loc |-> "Local"]

\* t.UTC(): the same instant, in the UTC location
TimeUTC(t) == [t EXCEPT !.loc = "UTC"]

(***************************************************************************)
(* The users collection (package database, user persistence).              *)
(***************************************************************************)
UserIds == {"u1", "u2"}
StripeIdOf == ("u1" :> "cus_1") @@ ("u2" :> "cus_2")
CustomerIds == {"cus_1", "cus_2"}

ErrUserNotFound == "user not found"

NoUser == [ID |-> "", Tier |-> 0, SubscribedUntil |-> TimeUTC(TimeUnix(0)), StripeId |-> ""]

\* a stored document decoded into a database.User: BSON datetimes decode to UTC
DecodeUser(us, uid) ==
    [ID |-> uid, Tier |-> us[uid].Tier,
     SubscribedUntil |-> TimeUTC(TimeUnix(us[uid].SubscribedUntil)),
     StripeId |-> us[uid].StripeId]

\* UserByStripeID: the user whose billing customer id is id, ErrUserNotFound when none
UserByStripeID(us, id) ==
    IF \E uid \in UserIds : us[uid].StripeId = id
    THEN [err |-> {}, u |-> DecodeUser(us, CHOOSE uid \in UserIds : us[uid].StripeId = id)]
    ELSE [err |-> {ErrUserNotFound}, u |-> NoUser]

\* UserSave: replace the stored document of u by u (a BSON datetime keeps the instant only)
UserSave(us, u) ==
    [us EXCEPT ![u.ID] = [Tier |-> u.Tier, SubscribedUntil |-> u.SubscribedUntil.sec,
                          StripeId |-> u.StripeId]]

\* UserSetTier: store tier as the tier of u
UserSetTier(us, u, tier) ==
    [us EXCEPT ![u.ID].Tier = tier]

(***************************************************************************)
(* Errors: the set of messages an error value carries; {} is nil.          *)
(***************************************************************************)
\* errors.AddContext(err, ctx)
AddContext(err, ctx) == IF err = {} THEN {} ELSE err \cup {ctx}

\* errors.Compose keeping the first error only
Compose_FirstOnly(err, err2) == err

\* errors.Compose(err, err2): nil operands are dropped
Compose(err, err2) == err \cup err2

(***************************************************************************)
(* Operations recorded in trace.                                           *)
(***************************************************************************)
Op(name, uid, tier, plan, ok) ==
    [op |-> name, uid |-> uid, tier |-> tier, plan |-> plan, ok |-> ok]

(***************************************************************************)
(* processSub                                                              *)
(***************************************************************************)
SubscriptionStatusActive == "active"

\* ApplySub clearing the expiry of a user it demotes
ApplySub_ClearExpiry(u, s) ==
    IF s.Status # SubscriptionStatusActive
    THEN [u EXCEPT !.Tier = TierFree, !.SubscribedUntil = TimeUTC(TimeUnix(0))]
    ELSE [u EXCEPT !.Tier = tierForPlan(s.Product),
                   !.SubscribedUntil = TimeUTC(TimeUnix(s.CurrentPeriodEnd))]

\* lines 141-154: the tier and expiry the subscription gives the user
ApplySub(u, s) ==
    IF s.Status # SubscriptionStatusActive
    THEN [u EXCEPT !.Tier = TierFree]
    ELSE [u EXCEPT !.Tier = tierForPlan(s.Product),
                   !.SubscribedUntil = TimeUTC(TimeUnix(s.CurrentPeriodEnd))]

\* SubChanged with && for ||
SubChanged_And(u, oldTier, oldSubbedUntil) ==
    u.Tier # oldTier /\ u.SubscribedUntil # oldSubbedUntil

\* line 156: u.Tier != oldTier || u.SubscribedUntil != oldSubbedUntil
SubChanged(u, oldTier, oldSubbedUntil) ==
    u.Tier # oldTier \/ u.SubscribedUntil # oldSubbedUntil

\* processSub going on after a failed lookup
processSub_NoErrCheck(us, s, saveOk) ==
    LET got == UserByStripeID(us, s.Customer)
        lookup == Op("UserByStripeID", got.u.ID, 0, "", got.err = {})
        u == ApplySub(got.u, s)
    IN  IF SubChanged(u, got.u.Tier, got.u.SubscribedUntil)
        THEN [users |-> IF saveOk /\ u.ID \in DOMAIN us THEN UserSave(us, u) ELSE us,
              err |-> IF saveOk THEN {} ELSE {"failed to save user"},
              trace |-> <<lookup, Op("UserSave", u.ID, u.Tier, "", saveOk)>>]
        ELSE [users |-> us, err |-> {}, trace |-> <<lookup>>]

\* processSub(ctx, s): the users collection it leaves, the error it returns
\* and the storage operations it performs. saveOk: whether UserSave, if
\* called, succeeds.
processSub(us, s, saveOk) ==
    LET got == UserByStripeID(us, s.Customer)
        lookup == Op("UserByStripeID", got.u.ID, 0, "", got.err = {})
    IN  IF got.err # {}
        THEN [users |-> us,
              err |-> AddContext(got.err, "failed to fetch user from DB based on subscription info"),
              trace |-> <<lookup>>]
        ELSE LET oldTier == got.u.Tier
                 oldSubbedUntil == got.u.SubscribedUntil
                 u == ApplySub(got.u, s)
             IN  IF SubChanged(u, oldTier, oldSubbedUntil)
                 THEN [users |-> IF saveOk THEN UserSave(us, u) ELSE us,
                       err |-> IF saveOk THEN {} ELSE {"failed to save user"},
                       trace |-> <<lookup, Op("UserSave", u.ID, u.Tier, "", saveOk)>>]
                 ELSE [users |-> us, err |-> {}, trace |-> <<lookup>>]

(***************************************************************************)
(* The handler calls.                                                      *)
(***************************************************************************)
NoSub == [Customer |-> "", Status |-> "", Product |-> "", CurrentPeriodEnd |-> 0]

EventCustomers == CustomerIds \cup {"cus_unknown"}
EventProducts ==
    {"prod_J2FBsxvEl4VoUK", "prod_J06Q7nJH3HJcYN", "prod_J06Qu7zg1unO8R",
     "prod_J06QbGjCvmZQGZ", "prod_unknown"}
PeriodEnds == 1 .. MaxPeriodEnd

\* the subscriptions an event can carry: active ones on every product, and
\* canceled ones
Subscriptions ==
    [Customer : EventCustomers, Status : {"active"},
     Product : EventProducts, CurrentPeriodEnd : PeriodEnds]
    \cup
    [Customer : EventCustomers, Status : {"canceled"},
     Product : {"prod_J06Q7nJH3HJcYN", "prod_unknown"}, CurrentPeriodEnd : PeriodEnds]

Call(op, uid, s, tier, err) ==
    [op |-> op, uid |-> uid, s |-> s, tier |-> tier, err |-> err,
     users |-> users, customers |-> customers]

ProcessSub ==
    \E s \in Subscriptions, saveOk \in BOOLEAN :
        LET r == processSub(users, s, saveOk)
        IN  /\ users' = r.users
            /\ trace' = r.trace
            /\ call' = Call("processSub", "", s, 0, r.err)
            /\ UNCHANGED <<customers, schemaVars, queryVars, hook, recon>>

(***************************************************************************)
(* createStripeCustomer                                                    *)
(***************************************************************************)
\* createStripeCustomer(ctx, u): the calls that can follow from it, one per
\* plan planForTier can return. newOk: whether customer.New succeeds.
createStripeCustomer(u, newOk) ==
    {[err |-> IF newOk THEN {} ELSE {"failed to create customer on Stripe"},
      trace |-> <<Op("customer.New", u.ID, 0, freePlan, newOk)>>] :
        freePlan \in planForTier(u.Tier)}

CreateStripeCustomer ==
    \E uid \in UserIds, newOk \in BOOLEAN :
        \E r \in createStripeCustomer(DecodeUser(users, uid), newOk) :
            /\ trace' = r.trace
            /\ call' = Call("createStripeCustomer", uid, NoSub, 0, r.err)
            /\ UNCHANGED <<users, customers, schemaVars, queryVars, hook, recon>>

(***************************************************************************)
(* assignTier                                                              *)
(***************************************************************************)
\* customer.Update(id, &stripe.CustomerParams{Plan: &plan})
CustomerUpdate(cs, id, plan) == [cs EXCEPT ![id] = plan]

\* AssignTierPersist reverting with the plan variable as it stands, the plan
\* of the new tier
AssignTierPersist_StalePlan(us, cs, u, tier, oldTier, first, setOk, revOk) ==
    IF setOk
    THEN {[users |-> UserSetTier(us, u, tier), customers |-> cs, err |-> {},
           trace |-> <<first, Op("UserSetTier", u.ID, tier, "", TRUE)>>]}
    ELSE {[users |-> us,
           customers |-> IF revOk THEN CustomerUpdate(cs, u.StripeId, plan) ELSE cs,
           err |-> Compose(AddContext({"db error"}, "failed to update user in DB"),
                           IF revOk THEN {}
                           ELSE AddContext({"stripe error"},
                                           "failed to revert the change on Stripe")),
           trace |-> <<first, Op("UserSetTier", u.ID, tier, "", FALSE),
                       Op("customer.Update", u.ID, 0, plan, revOk)>>] :
            plan \in planForTier(tier)}

\* lines 189-202: the local write and, when it fails, the revert on Stripe.
\* cs is Stripe's state after the first update.
AssignTierPersist(us, cs, u, tier, oldTier, first, setOk, revOk) ==
    IF setOk
    THEN {[users |-> UserSetTier(us, u, tier), customers |-> cs, err |-> {},
           trace |-> <<first, Op("UserSetTier", u.ID, tier, "", TRUE)>>]}
    ELSE {[users |-> us,
           customers |-> IF revOk THEN CustomerUpdate(cs, u.StripeId, plan) ELSE cs,
           err |-> Compose(AddContext({"db error"}, "failed to update user in DB"),
                           IF revOk THEN {}
                           ELSE AddContext({"stripe error"},
                                           "failed to revert the change on Stripe")),
           trace |-> <<first, Op("UserSetTier", u.ID, tier, "", FALSE),
                       Op("customer.Update", u.ID, 0, plan, revOk)>>] :
            plan \in planForTier(oldTier)}

\* assignTier going on to the local write after a failed customer.Update
assignTier_NoErrCheck(us, cs, u, tier, updOk, setOk, revOk) ==
    UNION {AssignTierPersist(us, IF updOk THEN CustomerUpdate(cs, u.StripeId, plan) ELSE cs,
                             u, tier, u.Tier,
                             Op("customer.Update", u.ID, 0, plan, updOk), setOk, revOk) :
            plan \in planForTier(tier)}

\* assignTier(ctx, tier, u): the outcomes of the call. updOk, setOk, revOk:
\* whether the first customer.Update, UserSetTier and the reverting
\* customer.Update succeed.
assignTier(us, cs, u, tier, updOk, setOk, revOk) ==
    UNION {LET oldTier == u.Tier
               first == Op("customer.Update", u.ID, 0, plan, updOk)
           IN  IF ~updOk
               THEN {[users |-> us, customers |-> cs,
                      err |-> AddContext({"stripe error"}, "failed to update customer on Stripe"),
                      trace |-> <<first>>]}
               ELSE AssignTierPersist(us, CustomerUpdate(cs, u.StripeId, plan), u, tier,
                                      oldTier, first, setOk, revOk) :
            plan \in planForTier(tier)}

AssignTier ==
    \E uid \in UserIds, tier \in Tiers, updOk \in BOOLEAN, setOk \in BOOLEAN, revOk \in BOOLEAN :
        \E r \in assignTier(users, customers, DecodeUser(users, uid), tier, updOk, setOk, revOk) :
            /\ users' = r.users
            /\ customers' = r.customers
            /\ trace' = r.trace
            /\ call' = Call("assignTier", uid, NoSub, tier, r.err)
            /\ UNCHANGED <<schemaVars, queryVars, hook, recon>>

\* the tiers planForTier is called with: the tiers of the table, and below
\* and above them a tier that no plan maps to
TierInputs == {0} \cup Tiers \cup {5}

PlanForTier ==
    \E t \in TierInputs :
        \E plan \in planForTier(t) :
            /\ call' = Call("planForTier", "", NoSub, t, {})
            /\ trace' = <<Op("planForTier", "", t, plan, TRUE)>>
            /\ UNCHANGED <<users, customers, schemaVars, queryVars, hook, recon>>

InitBilling ==
    /\ users = [uid \in UserIds |->
                  [Tier |-> TierFree, SubscribedUntil |-> 0, StripeId |-> StripeIdOf[uid]]]
    /\ customers = [c \in CustomerIds |-> "prod_J2FBsxvEl4VoUK"]
    /\ call = [op |-> "none", uid |-> "", s |-> NoSub, tier |-> 0, err |-> {},
               users |-> users, customers |-> customers]
    /\ trace = <<>>

(***************************************************************************)
(* stripeWebhookHandler. An event type is the sequence of the words and    *)
(* separators of its name, strings.Contains the test for a contiguous      *)
(* subsequence.                                                            *)
(***************************************************************************)
Contains(s, substr) ==
    \E i \in 1 .. Len(s) - Len(substr) + 1 : SubSeq(s, i, i + Len(substr) - 1) = substr

\* "customer.subscription" and "subscription_schedule"
CustomerSubscription == <<"customer", ".", "subscription">>
SubscriptionSchedule == <<"subscription", "_", "schedule">>

\* customer.subscription.updated, subscription_schedule.updated,
\* invoice.paid, customer.created
EventTypes ==
    {<<"customer", ".", "subscription", ".", "updated">>,
     <<"subscription", "_", "schedule", ".", "updated">>,
     <<"invoice", ".", "paid">>,
     <<"customer", ".", "created">>}

\* a request: whether its body can be read (readOk) and is an event
\* (parseOk), the event's type, whether the event's data parses (dataOk),
\* the subscription id a schedule carries (Sub), whether sub.Get succeeds
\* (getOk), and the subscription the data holds or sub.Get returns (s)
Event(readOk, parseOk, type, dataOk, Sub, getOk, s) ==
    [readOk |-> readOk, parseOk |-> parseOk, Type |-> type, dataOk |-> dataOk,
     Sub |-> Sub, getOk |-> getOk, s |-> s]

NoEvent == Event(TRUE, TRUE, <<>>, TRUE, "", TRUE, NoSub)

\* the subscriptions the events of a webhook request carry: of the first
\* user's customer or of an unknown one, on a paid plan
HookSubscriptions ==
    {s \in Subscriptions : /\ s.Customer \in {StripeIdOf["u1"], "cus_unknown"}
                           /\ s.Product = "prod_J06Q7nJH3HJcYN"}

\* the requests: an unreadable body, a body that is no event, and events of
\* every type, with data that does not parse, data that holds a
\* subscription, and for a schedule the subscription id it carries or lacks
Events ==
    {Event(FALSE, TRUE, <<>>, TRUE, "", TRUE, NoSub),
     Event(TRUE, FALSE, <<>>, TRUE, "", TRUE, NoSub)}
    \cup {Event(TRUE, TRUE, type, FALSE, "", TRUE, NoSub) : type \in EventTypes}
    \cup {Event(TRUE, TRUE, type, TRUE, "", TRUE, s) :
             type \in {t \in EventTypes : Contains(t, CustomerSubscription)},
             s \in HookSubscriptions}
    \cup {Event(TRUE, TRUE, type, TRUE, "", TRUE, NoSub) :
             type \in {t \in EventTypes : ~Contains(t, CustomerSubscription)}}
    \cup {Event(TRUE, TRUE, type, TRUE, "sub_1", FALSE, NoSub) :
             type \in {t \in EventTypes : Contains(t, SubscriptionSchedule)}}
    \cup {Event(TRUE, TRUE, type, TRUE, "sub_1", TRUE, s) :
             type \in {t \in EventTypes : Contains(t, SubscriptionSchedule)},
             s \in HookSubscriptions}

\* readStripeEvent: the status code and the error
readStripeEvent(ev) ==
    IF ~ev.readOk
    THEN [code |-> 503, err |-> AddContext({"read failed"}, "error reading request body")]
    ELSE IF ~ev.parseOk
         THEN [code |-> 400,
               err |-> AddContext({"unmarshal failed"}, "error parsing request body")]
         ELSE [code |-> 200, err |-> {}]

\* what a call of the handler leaves: the users collection, whether
\* processSub was called and its error and operations, the response written
\* ("none" when the handler returns without writing one) with the code of an
\* error response, and the messages logged
Handled(us, invoked, err, ops, response, code, log) ==
    [users |-> us, invoked |-> invoked, err |-> err, trace |-> ops,
     response |-> response, code |-> code, log |-> log]

\* the handler answering with an error when processSub fails
stripeWebhookHandler_FailOnError(us, ev, saveOk) ==
    LET r == processSub(us, ev.s, saveOk)
    IN  IF r.err # {}
        THEN Handled(r.users, TRUE, r.err, r.trace, "error", 500, {"Failed to process sub:"})
        ELSE Handled(r.users, TRUE, r.err, r.trace, "success", 0, {})

\* the handler calling processSub whatever the event's type
stripeWebhookHandler_AnyType(us, ev, saveOk) ==
    LET r == processSub(us, ev.s, saveOk)
    IN  Handled(r.users, TRUE, r.err, r.trace, "success", 0,
                IF r.err # {} THEN {"Failed to process sub:"} ELSE {})

stripeWebhookHandler(us, ev, saveOk) ==
    LET read == readStripeEvent(ev)
        r == processSub(us, ev.s, saveOk)
        processed == Handled(r.users, TRUE, r.err, r.trace, "success", 0,
                             IF r.err # {} THEN {"Failed to process sub:"} ELSE {})
    IN  IF read.err # {}
        THEN Handled(us, FALSE, {}, <<>>, "error", read.code, {})
        ELSE IF Contains(ev.Type, CustomerSubscription)
        THEN IF ~ev.dataOk
             THEN Handled(us, FALSE, {}, <<>>, "none", 0, {"Failed to parse event."})
             ELSE processed
        ELSE IF Contains(ev.Type, SubscriptionSchedule)
        THEN IF ~ev.dataOk
             THEN Handled(us, FALSE, {}, <<>>, "none", 0, {"Failed to parse event."})
             ELSE IF ev.Sub = ""
             THEN Handled(us, FALSE, {}, <<>>, "none", 0,
                          {"Event doesn't refer to a subscription."})
             ELSE IF ~ev.getOk
             THEN Handled(us, FALSE, {}, <<>>, "none", 0, {"Failed to fetch sub:"})
             ELSE processed
        ELSE Handled(us, FALSE, {}, <<>>, "success", 0, {})

Hook(ev, r) ==
    [ev |-> ev, invoked |-> r.invoked, err |-> r.err, response |-> r.response,
     code |-> r.code, log |-> r.log]

NoHook == Hook(NoEvent, Handled(<<>>, FALSE, {}, <<>>, "none", 0, {}))

StripeWebhook ==
    \E ev \in Events, saveOk \in BOOLEAN :
        LET r == stripeWebhookHandler(users, ev, saveOk)
        IN  /\ users' = r.users
            /\ trace' = r.trace
            /\ call' = Call("stripeWebhookHandler", "", ev.s, 0, r.err)
            /\ hook' = Hook(ev, r)
            /\ UNCHANGED <<customers, schemaVars, queryVars, recon>>

(***************************************************************************)
(* processSub as the two requests it makes of the storage: the read of the *)
(* user with what it computes from it, and the conditional UserSave.       *)
(* Between the two the storage serves other calls.                         *)
(***************************************************************************)
Reconcilers == {"r1", "r2"}

\* lines 134-154: the lookup and the user as the subscription changes it
processSubRead(us, s) ==
    LET got == UserByStripeID(us, s.Customer)
    IN  IF got.err # {}
        THEN [err |-> AddContext(got.err,
                                 "failed to fetch user from DB based on subscription info"),
              old |-> got.u, new |-> got.u]
        ELSE [err |-> {}, old |-> got.u, new |-> ApplySub(got.u, s)]

\* the write step saving the user whether or not anything changed
processSubWrite_Always(us, old, new, saveOk) ==
    [users |-> IF saveOk THEN UserSave(us, new) ELSE us,
     called |-> TRUE,
     err |-> IF saveOk THEN {} ELSE {"failed to save user"}]

\* lines 155-159: UserSave of the user computed, when it differs from the
\* user read
processSubWrite(us, old, new, saveOk) ==
    IF SubChanged(new, old.Tier, old.SubscribedUntil)
    THEN [users |-> IF saveOk THEN UserSave(us, new) ELSE us,
          called |-> TRUE,
          err |-> IF saveOk THEN {} ELSE {"failed to save user"}]
    ELSE [users |-> us, called |-> FALSE, err |-> {}]

\* a reconciliation: where it is (pc), its event, the user it read and the
\* user it computed, whether it called UserSave and the error it returned
Reconciliation(at, s, old, new, called, err) ==
    [pc |-> at, s |-> s, old |-> old, new |-> new, called |-> called, err |-> err]

NoRecon ==
    [proc |-> [p \in Reconcilers |-> Reconciliation("start", NoSub, NoUser, NoUser, FALSE, {})],
     first |-> <<TierFree, 0>>,
     log |-> <<>>]

\* the events of the two reconciliations: of the first user's customer, and
\* one of a customer that no user has
RaceSubscriptions ==
    {s \in Subscriptions :
        \/ /\ s.Customer = StripeIdOf["u1"]
           /\ s.Product \in {"prod_J06Q7nJH3HJcYN", "prod_J06Qu7zg1unO8R"}
        \/ /\ s.Customer = "cus_unknown"
           /\ s.Status = "active" /\ s.Product = "prod_J06Q7nJH3HJcYN"
           /\ s.CurrentPeriodEnd = 1}

ReconRead(p) ==
    /\ recon.proc[p].pc = "start"
    /\ \E s \in RaceSubscriptions :
         LET r == processSubRead(users, s)
         IN  recon' = [recon EXCEPT !.proc[p] =
                          Reconciliation(IF r.err # {} THEN "done" ELSE "write",
                                         s, r.old, r.new, FALSE, r.err)]
    /\ UNCHANGED <<billingVars, schemaVars, queryVars, hook>>

ReconWrite(p) ==
    /\ recon.proc[p].pc = "write"
    /\ \E saveOk \in BOOLEAN :
         LET me == recon.proc[p]
             r == processSubWrite(users, me.old, me.new, saveOk)
         IN  /\ users' = r.users
             /\ recon' = [recon EXCEPT
                    !.proc[p] = Reconciliation("done", me.s, me.old, me.new, r.called, r.err),
                    !.log = IF r.called /\ saveOk
                            THEN Append(@, [p |-> p, Tier |-> me.new.Tier,
                                            SubscribedUntil |-> me.new.SubscribedUntil.sec])
                            ELSE @]
    /\ UNCHANGED <<customers, call, trace, schemaVars, queryVars, hook>>

(***************************************************************************)
(* Documents and aggregation pipelines. A document is a function from      *)
(* field names to values; a field outside its domain is missing. A stage   *)
(* is its operator and the operator's argument; a pipeline is a sequence   *)
(* of stages.                                                              *)
(***************************************************************************)
MaxOffset == 3
MaxPageSize == 3

DocIds == {1, 2, 3}
QueryUsers == {1, 2}
Timestamps == {1, 2}

Skylink(id, skylink, size) ==
    ("_id" :> id) @@ ("skylink" :> skylink) @@ ("size" :> size)

\* the skylinks collection
skylinks == {Skylink(11, "AAA", 200), Skylink(12, "BBB", 300)}

\* the skylink ids an upload or download can carry; 19 is the id of no skylink
SkylinkRefs == {11, 12, 19}

Upload(id, userId, skylinkId, timestamp) ==
    ("_id" :> id) @@ ("user_id" :> userId) @@ ("skylink_id" :> skylinkId) @@
    ("timestamp" :> timestamp)

\* a download is an upload with an optional bytes field
Download(id, userId, skylinkId, timestamp, hasBytes, bytes) ==
    IF hasBytes
    THEN Upload(id, userId, skylinkId, timestamp) @@ ("bytes" :> bytes)
    ELSE Upload(id, userId, skylinkId, timestamp)

Stage(op, arg) == [op |-> op, arg |-> arg]

\* bson.D{{"user_id", id}}: the match stage of a query for one user's records
MatchUser(userId) == Stage("$match", ("user_id" :> userId))

\* the expressions and the projection entries the pipelines use
ArrayElemAt(field, index) == [expr |-> "$arrayElemAt", field |-> field, index |-> index]
Root == [expr |-> "$$ROOT", field |-> "", index |-> 0]
NoCond == [gt |-> "", than |-> 0, then |-> "", else |-> ""]
Cond(gtField, than, thenField, elseField) ==
    [gt |-> gtField, than |-> than, then |-> thenField, else |-> elseField]
Exclude(field) == [field |-> field, spec |-> "0", cond |-> NoCond]
Include(field) == [field |-> field, spec |-> "1", cond |-> NoCond]
Computed(field, cond) == [field |-> field, spec |-> "$cond", cond |-> cond]

\* generateUploadsPipeline with the limit stage before the skip stage
generateUploadsPipeline_LimitFirst(matchStage, offset, pageSize) ==
    LET sortStage == Stage("$sort", ("timestamp" :> -1))
        skipStage == Stage("$skip", offset)
        limitStage == Stage("$limit", pageSize)
        lookupStage == Stage("$lookup", [from |-> "skylinks", localField |-> "skylink_id",
                                          foreignField |-> "_id", as |-> "fromSkylinks"])
        replaceStage == Stage("$replaceRoot",
                              [newRoot |-> [mergeObjects |->
                                  <<ArrayElemAt("fromSkylinks", 0), Root>>]])
        projectStage == Stage("$project", <<Exclude("fromSkylinks")>>)
    IN  <<matchStage, sortStage, limitStage, skipStage, lookupStage, replaceStage,
          projectStage>>

generateUploadsPipeline(matchStage, offset, pageSize) ==
    LET sortStage == Stage("$sort", ("timestamp" :> -1))
        skipStage == Stage("$skip", offset)
        limitStage == Stage("$limit", pageSize)
        lookupStage == Stage("$lookup", [from |-> "skylinks", localField |-> "skylink_id",
                                          foreignField |-> "_id", as |-> "fromSkylinks"])
        replaceStage == Stage("$replaceRoot",
                              [newRoot |-> [mergeObjects |->
                                  <<ArrayElemAt("fromSkylinks", 0), Root>>]])
        projectStage == Stage("$project", <<Exclude("fromSkylinks")>>)
    IN  <<matchStage, sortStage, skipStage, limitStage, lookupStage, replaceStage,
          projectStage>>

generateDownloadsPipeline(matchStage, offset, pageSize) ==
    LET sortStage == Stage("$sort", ("timestamp" :> -1))
        skipStage == Stage("$skip", offset)
        limitStage == Stage("$limit", pageSize)
        lookupStage == Stage("$lookup", [from |-> "skylinks", localField |-> "skylink_id",
                                          foreignField |-> "_id", as |-> "fromSkylinks"])
        replaceStage == Stage("$replaceRoot",
                              [newRoot |-> [mergeObjects |->
                                  <<ArrayElemAt("fromSkylinks", 0), Root>>]])
        projectStage == Stage("$project",
                              <<Include("skylink"), Include("name"), Include("user_id"),
                                Include("skylink_id"), Include("timestamp"),
                                Computed("size", Cond("bytes", 0, "bytes", "size"))>>)
    IN  <<matchStage, sortStage, skipStage, limitStage, lookupStage, replaceStage,
          projectStage>>

(***************************************************************************)
(* What the storage engine does with a stage: the sequences of documents   *)
(* that can leave the stage when rows enters it.                           *)
(***************************************************************************)
Min(a, b) == IF a < b THEN a ELSE b
Max(a, b) == IF a < b THEN b ELSE a

Range(rows) == {rows[i] : i \in DOMAIN rows}

\* the orders in which the documents of the set docs can be listed
Orderings(docs) ==
    {rows \in [1 .. Cardinality(docs) -> docs] : Range(rows) = docs}

\* $match with an equality filter
Matches(doc, filter) ==
    \A field \in DOMAIN filter : field \in DOMAIN doc /\ doc[field] = filter[field]

StageMatch(rows, filter) == SelectSeq(rows, LAMBDA doc : Matches(doc, filter))

InOrder(rows, field, direction) ==
    \A i \in DOMAIN rows, j \in DOMAIN rows :
        i < j => IF direction < 0 THEN rows[i][field] >= rows[j][field]
                                  ELSE rows[i][field] <= rows[j][field]

\* $sort that orders by the key ascending whatever direction is asked for
StageSort_Ascending(rows, keys) ==
    {sorted \in Orderings(Range(rows)) :
        \A field \in DOMAIN keys : InOrder(sorted, field, 1)}

\* $sort on one key: documents with equal keys leave in any order
StageSort(rows, keys) ==
    {sorted \in Orderings(Range(rows)) :
        \A field \in DOMAIN keys : InOrder(sorted, field, keys[field])}

StageSkip(rows, n) == SubSeq(rows, n + 1, Len(rows))

StageLimit(rows, n) == SubSeq(rows, 1, Min(n, Len(rows)))

\* the collection a $lookup stage names
Foreign(collName) == IF collName = "skylinks" THEN skylinks ELSE {}

\* the documents of the foreign collection joined to doc; the foreign field
\* of the pipelines is _id, which is unique, so there is at most one
Joined(doc, arg) ==
    LET found == {f \in Foreign(arg.from) :
                     /\ arg.localField \in DOMAIN doc
                     /\ arg.foreignField \in DOMAIN f
                     /\ f[arg.foreignField] = doc[arg.localField]}
    IN  IF found = {} THEN <<>> ELSE <<CHOOSE f \in found : TRUE>>

\* $lookup that drops the documents to which nothing is joined (an inner join)
StageLookup_Inner(rows, arg) ==
    LET kept == SelectSeq(rows, LAMBDA doc : Joined(doc, arg) # <<>>)
    IN  [i \in DOMAIN kept |-> (arg.as :> Joined(kept[i], arg)) @@ kept[i]]

\* $lookup: a left outer join, every document leaves with the array of its
\* joined documents, empty when there is none
StageLookup(rows, arg) ==
    [i \in DOMAIN rows |-> (arg.as :> Joined(rows[i], arg)) @@ rows[i]]

\* the value of an expression on doc; the empty document stands for missing
Eval(e, doc) ==
    IF e.expr = "$$ROOT" THEN doc
    ELSE IF e.field \in DOMAIN doc /\ e.index < Len(doc[e.field])
         THEN doc[e.field][e.index + 1]
         ELSE <<>>

\* $mergeObjects: a later operand overrides an earlier one, a missing
\* operand adds nothing
RECURSIVE MergeObjects(_, _)
MergeObjects(operands, doc) ==
    IF Len(operands) = 0 THEN <<>>
    ELSE Eval(operands[Len(operands)], doc) @@
         MergeObjects(SubSeq(operands, 1, Len(operands) - 1), doc)

StageReplaceRoot(rows, arg) ==
    [i \in DOMAIN rows |-> MergeObjects(arg.newRoot.mergeObjects, rows[i])]

\* $cond whose test is "greater than or equal"
CondField_GreaterEqual(c, doc) ==
    IF c.gt \in DOMAIN doc /\ doc[c.gt] >= c.than THEN c.then ELSE c.else

\* the field a $cond on "$gt: [field, than]" takes its value from; a
\* missing field is not greater than a number
CondField(c, doc) ==
    IF c.gt \in DOMAIN doc /\ doc[c.gt] > c.than THEN c.then ELSE c.else

\* $project: a list of exclusions drops the fields named; otherwise the
\* fields named and _id are kept, and a computed field whose value is
\* missing is left out
Project(doc, specs) ==
    LET entries == Range(specs)
    IN  IF \A e \in entries : e.spec = "0"
        THEN [f \in DOMAIN doc \ {e.field : e \in entries} |-> doc[f]]
        ELSE LET source(e) == IF e.spec = "1" THEN e.field ELSE CondField(e.cond, doc)
                 kept == {e \in entries : source(e) \in DOMAIN doc}
                 entry(f) == CHOOSE e \in kept : e.field = f
             IN  [f \in {e.field : e \in kept} \cup ({"_id"} \cap DOMAIN doc) |->
                     IF \E e \in kept : e.field = f THEN doc[source(entry(f))]
                                                    ELSE doc[f]]

StageProject(rows, specs) == [i \in DOMAIN rows |-> Project(rows[i], specs)]

\* $count: one document with the number of documents that entered, none
\* when none entered
StageCount(rows, field) ==
    IF Len(rows) = 0 THEN <<>> ELSE <<(field :> Len(rows))>>

RunStage(stage, rows) ==
    CASE stage.op = "$match" -> {StageMatch(rows, stage.arg)}
      [] stage.op = "$sort" -> StageSort(rows, stage.arg)
      [] stage.op = "$skip" -> {StageSkip(rows, stage.arg)}
      [] stage.op = "$limit" -> {StageLimit(rows, stage.arg)}
      [] stage.op = "$lookup" -> {StageLookup(rows, stage.arg)}
      [] stage.op = "$replaceRoot" -> {StageReplaceRoot(rows, stage.arg)}
      [] stage.op = "$project" -> {StageProject(rows, stage.arg)}
      [] stage.op = "$count" -> {StageCount(rows, stage.arg)}

RECURSIVE RunFrom(_, _, _)
RunFrom(pipeline, i, rows) ==
    IF i > Len(pipeline) THEN {rows}
    ELSE UNION {RunFrom(pipeline, i + 1, out) : out \in RunStage(pipeline[i], rows)}

\* coll.Aggregate(ctx, pipeline): the results the pipeline can give on the
\* documents docs, which the engine reads in any order
Aggregate(docs, pipeline) ==
    UNION {RunFrom(pipeline, 1, rows) : rows \in Orderings(docs)}

(***************************************************************************)
(* count, and the queries that run the pipelines. The queries read and     *)
(* never write, so the result of one does not depend on the queries before *)
(* it: a behaviour runs one query on the collection it starts with.        *)
(***************************************************************************)
\* count that counts the whole collection, whatever the match stage
count_NoMatchStage(docs, matchStage, aggOk, nextOk, decodeOk) ==
    {[n |-> Cardinality(docs), err |-> {}]}

\* count: the (result, error) pairs a call can return. aggOk: coll.Aggregate
\* returns no error; nextOk: the cursor advances without failing; decodeOk:
\* c.Decode returns no error. c.Next is false both when the cursor is
\* exhausted and when advancing it failed, and count does not tell the two
\* apart.
count(docs, matchStage, aggOk, nextOk, decodeOk) ==
    LET pipeline == <<matchStage, Stage("$count", "count")>>
    IN  IF ~aggOk
        THEN {[n |-> 0, err |-> AddContext({"aggregate failed"}, "DB query failed")]}
        ELSE {IF ~(nextOk /\ Len(out) > 0)
              THEN [n |-> 0, err |-> {}]
              ELSE IF ~decodeOk
                   THEN [n |-> 0,
                         err |-> AddContext({"decode failed"}, "failed to decode DB data")]
                   ELSE [n |-> out[1].count, err |-> {}] :
              out \in Aggregate(docs, pipeline)}

Query(op, matchStage, offset, pageSize, pipeline, rows, n, err, aggOk, nextOk, decodeOk) ==
    [op |-> op, matchStage |-> matchStage, offset |-> offset, pageSize |-> pageSize,
     pipeline |-> pipeline, rows |-> rows, n |-> n, err |-> err,
     aggOk |-> aggOk, nextOk |-> nextOk, decodeOk |-> decodeOk]

NoQuery == Query("none", MatchUser(0), 0, 0, <<>>, <<>>, 0, {}, TRUE, TRUE, TRUE)

Offsets == 0 .. MaxOffset
PageSizes == 1 .. MaxPageSize

\* a page of a user's uploads
Uploads ==
    /\ query.op = "none"
    /\ queried.kind = "uploads"
    /\ \E userId \in QueryUsers, offset \in Offsets, pageSize \in PageSizes :
         LET pipeline == generateUploadsPipeline(MatchUser(userId), offset, pageSize)
         IN  \E rows \in Aggregate(queried.docs, pipeline) :
                 query' = Query("uploads", MatchUser(userId), offset, pageSize,
                                pipeline, rows, 0, {}, TRUE, TRUE, TRUE)
    /\ UNCHANGED <<queried, hook, recon, billingVars, schemaVars>>

\* a page of a user's downloads
Downloads ==
    /\ query.op = "none"
    /\ queried.kind = "downloads"
    /\ \E userId \in QueryUsers, offset \in Offsets, pageSize \in PageSizes :
         LET pipeline == generateDownloadsPipeline(MatchUser(userId), offset, pageSize)
         IN  \E rows \in Aggregate(queried.docs, pipeline) :
                 query' = Query("downloads", MatchUser(userId), offset, pageSize,
                                pipeline, rows, 0, {}, TRUE, TRUE, TRUE)
    /\ UNCHANGED <<queried, hook, recon, billingVars, schemaVars>>

Count ==
    /\ query.op = "none"
    /\ \E userId \in QueryUsers, aggOk \in BOOLEAN, nextOk \in BOOLEAN, decodeOk \in BOOLEAN :
         \E r \in count(queried.docs, MatchUser(userId), aggOk, nextOk, decodeOk) :
             query' = Query("count", MatchUser(userId), 0, 0, <<>>, <<>>, r.n, r.err,
                            aggOk, nextOk, decodeOk)
    /\ UNCHANGED <<queried, hook, recon, billingVars, schemaVars>>

\* the collections queried: a first record of user 1 that refers to a
\* skylink, and two more records of any kind
UploadsCollections ==
    {{Upload(1, 1, 11, 1), Upload(2, u2, s2, t2), Upload(3, u3, s3, t3)} :
        u2 \in QueryUsers, s2 \in SkylinkRefs, t2 \in Timestamps,
        u3 \in QueryUsers, s3 \in SkylinkRefs, t3 \in Timestamps}

\* the (skylink id, has bytes, bytes) of a download
DownloadKinds ==
    {<<11, FALSE, 0>>, <<11, TRUE, 50>>, <<11, TRUE, 0>>, <<11, TRUE, -5>>,
     <<12, FALSE, 0>>, <<19, FALSE, 0>>, <<19, TRUE, 50>>}

DownloadsCollections ==
    {{Download(1, 1, 11, 1, FALSE, 0),
      Download(2, u2, k2[1], t2, k2[2], k2[3]),
      Download(3, u3, k3[1], t3, k3[2], k3[3])} :
        u2 \in QueryUsers, k2 \in DownloadKinds, t2 \in Timestamps,
        u3 \in QueryUsers, k3 \in DownloadKinds, t3 \in Timestamps}

NoColl == [kind |-> "none", docs |-> {}]

InitRest ==
    /\ queried = NoColl
    /\ query = NoQuery
    /\ hook = NoHook
    /\ recon = NoRecon

(***************************************************************************)
(* Schema provisioning: database.New, ensureDBSchema, ensureCollection.    *)
(***************************************************************************)
Procs == {"p1", "p2"}

Index(coll, name, key, unique) ==
    [coll |-> coll, name |-> name, key |-> key, unique |-> unique]

\* schema defines a mapping between a collection name and the indexes that
\* must exist for that collection.
schema ==
    ("users" :> {Index("users", "sub_unique", "sub", TRUE)}) @@
    ("skylinks" :> {Index("skylinks", "skylink_unique", "skylink", TRUE)}) @@
    ("uploads" :> {Index("uploads", "user_id", "user_id", FALSE),
                   Index("uploads", "skylink_id", "skylink_id", FALSE)}) @@
    ("downloads" :> {Index("downloads", "user_id", "user_id", FALSE),
                     Index("downloads", "skylink_id", "skylink_id", FALSE)}) @@
    ("registry_reads" :> {Index("registry_reads", "user_id", "user_id", FALSE)}) @@
    ("registry_writes" :> {Index("registry_writes", "user_id", "user_id", FALSE)})

\* db.Collection(collName) == nil: the driver returns a handle for any name,
\* whether or not the collection exists
CollectionIsNil(colls, collName) == FALSE

\* db.CreateCollection(ctx, collName): the server refuses a name that exists
CreateCollection(colls, collName) ==
    IF collName \in colls
    THEN [err |-> {"NamespaceExists"}, colls |-> colls]
    ELSE [err |-> {}, colls |-> colls \cup {collName}]

\* ensureCollection calling CreateCollection whatever db.Collection returned
ensureCollection_AlwaysCreate(colls, collName) ==
    CreateCollection(colls, collName)

\* ensureCollection(ctx, db, collName): the error it returns and the
\* collections that exist after it
ensureCollection(colls, collName) ==
    IF CollectionIsNil(colls, collName)
    THEN LET made == CreateCollection(colls, collName)
         IN  IF made.err # {}
             THEN made
             ELSE IF CollectionIsNil(made.colls, collName)
                  THEN [err |-> {"failed to create collection"}, colls |-> made.colls]
                  ELSE made
    ELSE [err |-> {}, colls |-> colls]

\* an existing index that a requested one clashes with: the same name or
\* the same key on the same collection, with another definition
Conflicts(indexes, models) ==
    {i \in indexes : \E m \in models :
        /\ i.coll = m.coll
        /\ i.name = m.name \/ i.key = m.key
        /\ i # m}

\* iv.CreateMany(ctx, models), the createIndexes command: it fails when the
\* server does (fault) and when a requested index clashes with an existing
\* one; else it creates the collection if absent and the indexes that are
\* missing; an index that exists with the same definition is left as it is
CreateMany(colls, indexes, collName, models, fault) ==
    IF fault
    THEN [err |-> {"server failure"}, colls |-> colls, indexes |-> indexes]
    ELSE IF Conflicts(indexes, models) # {}
         THEN [err |-> {"IndexOptionsConflict"}, colls |-> colls, indexes |-> indexes]
         ELSE [err |-> {}, colls |-> colls \cup {collName}, indexes |-> indexes \cup models]

\* lines 206-216, one turn of the range loop: the error the turn ends
\* ensureDBSchema with ({} when the loop goes on), the error of the driver
\* call that failed, and the database after the turn
EnsureEntry(colls, indexes, collName, fault) ==
    LET coll == ensureCollection(colls, collName)
    IN  IF coll.err # {}
        THEN [err |-> coll.err, opErr |-> coll.err, colls |-> coll.colls, indexes |-> indexes]
        ELSE LET made == CreateMany(coll.colls, indexes, collName, schema[collName], fault)
             IN  [err |-> AddContext(made.err, "failed to create indexes"),
                  opErr |-> made.err, colls |-> made.colls, indexes |-> made.indexes]

\* the range loop returning nil once it has visited one entry
LoopDone_AfterFirst(td) == td # DOMAIN schema

\* lines 205-218: the range loop has visited every entry of schema
LoopDone(td) == td = {}

\* New handing out the DB whatever ensureDBSchema returned
NewResult_IgnoreError(err) == [handle |-> TRUE, err |-> err]

\* lines 109-123: what New returns on the error of ensureDBSchema
NewResult(err) == [handle |-> err = {}, err |-> err]

\* lines 96-108: a process calls New; connecting can fail
NewConnect(p) ==
    /\ pc[p] \in {"idle", "done"}
    /\ \E ok \in BOOLEAN :
        /\ pc' = [pc EXCEPT ![p] = IF ok THEN "loop" ELSE "done"]
        /\ todo' = [todo EXCEPT ![p] = IF ok THEN DOMAIN schema ELSE {}]
        /\ opErr' = [opErr EXCEPT ![p] = IF ok THEN {} ELSE {"connection failure"}]
        /\ newErr' = [newErr EXCEPT ![p] =
                        AddContext(opErr'[p], "failed to connect to DB")]
        /\ handle' = [handle EXCEPT ![p] = FALSE]
        /\ second' = [second EXCEPT ![p] = provisioned]
    /\ UNCHANGED <<dbColls, dbIndexes, provisioned, billingVars, queryVars, hook, recon>>

\* one turn of the range loop of ensureDBSchema, on an entry in the map's
\* unspecified iteration order; New returns when the turn ends in an error
EnsureNext(p) ==
    /\ pc[p] = "loop"
    /\ ~LoopDone(todo[p])
    /\ \E collName \in todo[p], fault \in BOOLEAN :
        LET r == EnsureEntry(dbColls, dbIndexes, collName, fault)
        IN  /\ dbColls' = r.colls
            /\ dbIndexes' = r.indexes
            /\ opErr' = [opErr EXCEPT ![p] = r.opErr]
            /\ todo' = [todo EXCEPT ![p] = IF r.err # {} THEN {} ELSE @ \ {collName}]
            /\ IF r.err # {}
               THEN /\ pc' = [pc EXCEPT ![p] = "done"]
                    /\ newErr' = [newErr EXCEPT ![p] = NewResult(r.err).err]
                    /\ handle' = [handle EXCEPT ![p] = NewResult(r.err).handle]
               ELSE UNCHANGED <<pc, newErr, handle>>
    /\ UNCHANGED <<provisioned, second, billingVars, queryVars, hook, recon>>

\* ensureDBSchema returns nil and New returns the DB
NewReturn(p) ==
    /\ pc[p] = "loop"
    /\ LoopDone(todo[p])
    /\ pc' = [pc EXCEPT ![p] = "done"]
    /\ newErr' = [newErr EXCEPT ![p] = NewResult({}).err]
    /\ handle' = [handle EXCEPT ![p] = NewResult({}).handle]
    /\ provisioned' = TRUE
    /\ UNCHANGED <<dbColls, dbIndexes, todo, opErr, second, billingVars, queryVars, hook, recon>>

\* a database left by an earlier version of the service: the index on sub
\* exists under its name, not unique
StaleIndex == Index("users", "sub_unique", "sub", FALSE)

InitProcs ==
    /\ pc = [p \in Procs |-> "idle"]
    /\ todo = [p \in Procs |-> {}]
    /\ opErr = [p \in Procs |-> {}]
    /\ newErr = [p \in Procs |-> {}]
    /\ handle = [p \in Procs |-> FALSE]
    /\ provisioned = FALSE
    /\ second = [p \in Procs |-> FALSE]

InitSchema ==
    /\ dbColls = {}
    /\ dbIndexes = {}
    /\ InitProcs

Init == InitBilling /\ InitSchema /\ InitRest

Next ==
    \/ ProcessSub
    \/ CreateStripeCustomer

Spec == Init /\ [][Next]_vars

NextTier ==
    \/ AssignTier
    \/ PlanForTier

SpecTier == Init /\ [][NextTier]_vars

\* the database is empty, or holds the users collection of an earlier version
InitSchemaAny ==
    /\ \/ dbColls = {} /\ dbIndexes = {}
       \/ dbColls = {"users"} /\ dbIndexes = {StaleIndex}
    /\ InitProcs

NextSchema ==
    \E p \in Procs :
        \/ NewConnect(p)
        \/ EnsureNext(p)
        \/ NewReturn(p)

InitAny == InitBilling /\ InitSchemaAny /\ InitRest

SpecSchema == InitAny /\ [][NextSchema]_vars

InitQuery ==
    /\ InitBilling
    /\ InitSchema
    /\ queried \in [kind : {"uploads"}, docs : UploadsCollections]
               \cup [kind : {"downloads"}, docs : DownloadsCollections]
    /\ query = NoQuery
    /\ hook = NoHook
    /\ recon = NoRecon

NextQuery ==
    \/ Uploads
    \/ Downloads
    \/ Count

SpecQuery == InitQuery /\ [][NextQuery]_vars

NextHook == StripeWebhook

SpecHook == Init /\ [][NextHook]_vars

\* the (tier, expiry) the first user has stored as the two reconciliations
\* begin: those of a new user, and those earlier events have left
StoredPairs == {<<TierFree, 0>>, <<TierFree, 1>>, <<TierPremium5, 1>>, <<TierPremium20, 2>>}

InitRace ==
    /\ \E pair \in StoredPairs :
         /\ users = [uid \in UserIds |->
                       [Tier |-> IF uid = "u1" THEN pair[1] ELSE TierFree,
                        SubscribedUntil |-> IF uid = "u1" THEN pair[2] ELSE 0,
                        StripeId |-> StripeIdOf[uid]]]
         /\ recon = [NoRecon EXCEPT !.first = pair]
    /\ customers = [c \in CustomerIds |-> "prod_J2FBsxvEl4VoUK"]
    /\ call = [op |-> "none", uid |-> "", s |-> NoSub, tier |-> 0, err |-> {},
               users |-> users, customers |-> customers]
    /\ trace = <<>>
    /\ InitSchema
    /\ queried = NoColl
    /\ query = NoQuery
    /\ hook = NoHook

NextRace ==
    \E p \in Reconcilers :
        \/ ReconRead(p)
        \/ ReconWrite(p)

SpecRace == InitRace /\ [][NextRace]_vars

(***************************************************************************)
(* What the claims speak of, read off the last call.                       *)
(***************************************************************************)
\* the users whose billing customer id the event of the last call carries
Matched == {uid \in UserIds : call.users[uid].StripeId = call.s.Customer}

\* the number of UserSave calls the last call made
NumSaves == Cardinality({i \in DOMAIN trace : trace[i].op = "UserSave"})

\* the positions in trace of the Stripe customer updates
Updates == {i \in DOMAIN trace : trace[i].op = "customer.Update"}

\* the tier the plan table gives the event's product, free when it has none
TableTier(product) ==
    IF \E p \in DOMAIN stripePlans : p = product THEN stripePlans[product] ELSE TierFree

\* the (tier, expiry) the event of the last call resolves to for user uid
TargetPair(uid) ==
    IF call.s.Status = "active"
    THEN <<TableTier(call.s.Product), call.s.CurrentPeriodEnd>>
    ELSE <<TierFree, call.users[uid].SubscribedUntil>>

\* the (tier, expiry) stored for uid when the last call began
StoredBefore(uid) == <<call.users[uid].Tier, call.users[uid].SubscribedUntil>>

FreePlan == "prod_J2FBsxvEl4VoUK"

(***************************************************************************)
(* C1. processSub calls UserSave exactly when the (tier, expiry) it        *)
(* computes from the event differs from the pair it read, and at most      *)
(* once; an active event applied to a user already at the pair it resolves *)
(* to makes no write.                                                      *)
(***************************************************************************)
C1_SaveOnlyOnChange ==
    call.op = "processSub" =>
        /\ NumSaves <= 1
        /\ \A uid \in Matched : (NumSaves = 1) <=> (TargetPair(uid) # StoredBefore(uid))

\* an active event replayed on a user already at its pair: no write
C1_Witness ==
    /\ call.op = "processSub"
    /\ call.s.Status = "active"
    /\ \E uid \in Matched :
        /\ StoredBefore(uid) = TargetPair(uid)
        /\ StoredBefore(uid)[1] # TierFree
    /\ NumSaves = 0
    /\ call.err = {}

(***************************************************************************)
(* C2. When UserSetTier fails after the Stripe update succeeded,           *)
(* assignTier makes exactly one more Stripe update, with the plan of the   *)
(* tier the user had before the call, and returns an error; when that      *)
(* update fails too the error carries both failures.                       *)
(***************************************************************************)
C2_CompensateOnPersistFailure ==
    (/\ call.op = "assignTier"
     /\ Len(trace) >= 2
     /\ trace[1].op = "customer.Update" /\ trace[1].ok
     /\ trace[2].op = "UserSetTier" /\ ~trace[2].ok)
    =>
        /\ Updates = {1, 3}
        /\ Len(trace) = 3
        /\ trace[3].plan \in DOMAIN stripePlans
        /\ stripePlans[trace[3].plan] = call.users[call.uid].Tier
        /\ "failed to update user in DB" \in call.err
        /\ trace[3].ok => customers[StripeIdOf[call.uid]] = trace[3].plan
        /\ ~trace[3].ok => "failed to revert the change on Stripe" \in call.err

\* the local write failed and so did the revert, for a user changing tier
C2_Witness ==
    /\ call.op = "assignTier"
    /\ Len(trace) = 3
    /\ ~trace[2].ok
    /\ ~trace[3].ok
    /\ call.tier # call.users[call.uid].Tier

(***************************************************************************)
(* C3. assignTier updates the plan on Stripe first, with the plan of the   *)
(* new tier, and calls UserSetTier only after that update succeeded; when  *)
(* it fails assignTier returns an error, the stored tier is unchanged and  *)
(* no other Stripe call is made.                                           *)
(***************************************************************************)
C3_BillingFirst ==
    call.op = "assignTier" =>
        /\ Len(trace) >= 1
        /\ trace[1].op = "customer.Update"
        /\ trace[1].plan \in DOMAIN stripePlans
        /\ stripePlans[trace[1].plan] = call.tier
        /\ \A i \in DOMAIN trace : trace[i].op = "UserSetTier" => (i = 2 /\ trace[1].ok)
        /\ ~trace[1].ok =>
            /\ call.err # {}
            /\ users = call.users
            /\ customers = call.customers
            /\ Len(trace) = 1

\* the Stripe update failed for a user asking for another tier
C3_Witness ==
    /\ call.op = "assignTier"
    /\ ~trace[1].ok
    /\ call.tier # call.users[call.uid].Tier
    /\ call.users[call.uid].Tier # TierFree

(***************************************************************************)
(* C4. An event whose customer id no stored user has: processSub returns   *)
(* the not-found error and does nothing after the lookup; no user          *)
(* document is written.                                                    *)
(***************************************************************************)
C4_UnknownCustomer ==
    (call.op = "processSub" /\ Matched = {}) =>
        /\ ErrUserNotFound \in call.err
        /\ users = call.users
        /\ Len(trace) = 1
        /\ trace[1].op = "UserByStripeID"

\* an active event on a paid product for a customer nobody has, while some
\* user is on a paid tier
C4_Witness ==
    /\ call.op = "processSub"
    /\ Matched = {}
    /\ call.s.Status = "active"
    /\ call.s.Product = "prod_J06Q7nJH3HJcYN"
    /\ \E uid \in UserIds : users[uid].Tier # TierFree

(***************************************************************************)
(* C5. After processSub succeeds on an event whose status is not active,   *)
(* the stored tier of the user is free and the stored expiry is the one    *)
(* stored before the event; no other user changes.                         *)
(***************************************************************************)
C5_DemotionKeepsExpiry ==
    (call.op = "processSub" /\ call.s.Status # "active" /\ call.err = {}) =>
        \A uid \in UserIds :
            IF uid \in Matched
            THEN /\ users[uid].Tier = TierFree
                 /\ users[uid].SubscribedUntil = call.users[uid].SubscribedUntil
            ELSE users[uid] = call.users[uid]

\* a paying user with an expiry on record is demoted by a write
C5_Witness ==
    /\ call.op = "processSub"
    /\ call.s.Status # "active"
    /\ call.err = {}
    /\ NumSaves = 1
    /\ \E uid \in Matched :
        /\ call.users[uid].Tier # TierFree
        /\ call.users[uid].SubscribedUntil # 0
        /\ users[uid].Tier = TierFree

(***************************************************************************)
(* C6. After processSub succeeds on an active event, the stored tier of    *)
(* the user is the tier the plan table gives the event's product, free     *)
(* when the table has no such product, and the stored expiry is the        *)
(* event's period end.                                                     *)
(***************************************************************************)
C6_ActiveSetsTierAndExpiry ==
    (call.op = "processSub" /\ call.s.Status = "active" /\ call.err = {}) =>
        \A uid \in Matched :
            /\ users[uid].Tier = TableTier(call.s.Product)
            /\ users[uid].SubscribedUntil = call.s.CurrentPeriodEnd

\* a paying user moved to free by an active event on an unknown product
C6_Witness ==
    /\ call.op = "processSub"
    /\ call.s.Status = "active"
    /\ call.err = {}
    /\ call.s.Product \notin DOMAIN stripePlans
    /\ NumSaves = 1
    /\ \E uid \in Matched :
        /\ call.users[uid].Tier # TierFree
        /\ call.users[uid].SubscribedUntil # call.s.CurrentPeriodEnd

(***************************************************************************)
(* C7. createStripeCustomer creates the Stripe customer on the free-tier   *)
(* plan whatever user it is called with, and leaves the stored tier        *)
(* alone.                                                                  *)
(***************************************************************************)
C7_CustomerStartsFree ==
    (call.op = "createStripeCustomer" /\ call.err = {}) =>
        /\ Len(trace) = 1
        /\ trace[1].op = "customer.New"
        /\ trace[1].plan = FreePlan
        /\ users = call.users

(***************************************************************************)
(* What the claims speak of in schema provisioning.                        *)
(***************************************************************************)
\* the collections and indexes the schema table asks for
RequiredColls == DOMAIN schema
RequiredIndexes == UNION {schema[c] : c \in DOMAIN schema}

SchemaComplete == RequiredColls \subseteq dbColls /\ RequiredIndexes \subseteq dbIndexes

\* what a driver call can fail with, apart from "already exists"
CreationErrors == {"server failure", "IndexOptionsConflict", "failed to create collection"}
OtherErrors == CreationErrors \cup {"connection failure"}

\* the call of New by p has returned, and no driver call of it failed with
\* anything but "already exists"
Returned(p) == pc[p] = "done" /\ opErr[p] \cap OtherErrors = {}

(***************************************************************************)
(* C8. Once a call of New has returned nil, the database holds exactly the *)
(* collections and indexes of the schema table and a later run leaves it   *)
(* so; a run begun after that returns nil, unless the connection or the    *)
(* server fails.                                                           *)
(***************************************************************************)
C8_SecondRunIdempotent ==
    /\ provisioned => (dbColls = RequiredColls /\ dbIndexes = RequiredIndexes)
    /\ \A p \in Procs : (Returned(p) /\ second[p]) => (newErr[p] = {} /\ handle[p])

\* a run begun after another had returned nil has itself returned nil
C8_Witness ==
    \E p \in Procs : pc[p] = "done" /\ second[p] /\ newErr[p] = {} /\ handle[p]

(***************************************************************************)
(* C9. When both processes have returned from New and no driver call       *)
(* failed with anything but "already exists", both returned nil and a DB,  *)
(* and the whole schema is there, however their steps interleaved; no run  *)
(* ends with an "already exists" error.                                    *)
(***************************************************************************)
C9_ConcurrentStartup ==
    /\ \A p \in Procs : "NamespaceExists" \notin newErr[p]
    /\ (\A p \in Procs : Returned(p)) =>
        /\ \A p \in Procs : newErr[p] = {} /\ handle[p]
        /\ SchemaComplete

\* both runs began before either had returned, and both returned nil
C9_Witness ==
    /\ \A p \in Procs : pc[p] = "done" /\ ~second[p] /\ newErr[p] = {} /\ handle[p]
    /\ SchemaComplete

(***************************************************************************)
(* C10. A collection or index creation that fails with anything but        *)
(* "already exists" ends New at once with that error in the error it       *)
(* returns, and New returns a DB only together with a nil error.           *)
(***************************************************************************)
C10_CreationErrorIsFatal ==
    \A p \in Procs :
        /\ opErr[p] \cap CreationErrors # {} =>
            /\ pc[p] = "done"
            /\ opErr[p] \subseteq newErr[p]
            /\ ~handle[p]
        /\ handle[p] => (pc[p] = "done" /\ newErr[p] = {})

\* New returned the index clash on users after creating other collections
C10_Witness ==
    \E p \in Procs :
        /\ pc[p] = "done"
        /\ "IndexOptionsConflict" \in newErr[p]
        /\ ~handle[p]
        /\ dbColls # {"users"}

(***************************************************************************)
(* What the claims on queries speak of, read off the last query.           *)
(***************************************************************************)
Paged == query.op \in {"uploads", "downloads"}

\* the documents of the collection that the match stage of the query selects
MatchedDocs == {d \in queried.docs : Matches(d, query.matchStage.arg)}

\* the document of the collection that a returned row comes from
SourceDoc(row) == CHOOSE d \in queried.docs : d["_id"] = row["_id"]

\* the matched documents that are not in the returned page
NotReturned ==
    {d \in MatchedDocs : \A i \in DOMAIN query.rows : query.rows[i]["_id"] # d["_id"]}

(***************************************************************************)
(* C11. For a filter F, an offset o >= 0 and a page size p >= 1, the       *)
(* paginated upload or download pipeline returns max(0, min(p, n - o))     *)
(* rows, n the number of documents matching F, and so never more than p;   *)
(* a matched record whose skylink does not exist counts like any other.    *)
(***************************************************************************)
C11_PageLength ==
    Paged =>
        /\ Len(query.rows) <= query.pageSize
        /\ Len(query.rows) =
               Max(0, Min(query.pageSize, Cardinality(MatchedDocs) - query.offset))

\* a page of two of three matched downloads, one of them of a skylink that
\* does not exist
C11_Witness ==
    /\ query.op = "downloads"
    /\ query.offset = 1
    /\ Cardinality(MatchedDocs) = 3
    /\ Len(query.rows) = 2
    /\ \E i \in DOMAIN query.rows : query.rows[i]["skylink_id"] = 19

C13_MostRecentFirst ==
    Paged =>
        /\ \A i \in DOMAIN query.rows, j \in DOMAIN query.rows :
               i < j => query.rows[i]["timestamp"] >= query.rows[j]["timestamp"]
        /\ \E skipped \in SUBSET NotReturned :
               /\ Cardinality(skipped) = Min(query.offset, Cardinality(MatchedDocs))
               /\ \A s \in skipped, i \in DOMAIN query.rows :
                      query.rows[i]["timestamp"] <= s["timestamp"]

\* a page after one skipped record, with rows of different timestamps
C13_Witness ==
    /\ Paged
    /\ query.offset = 1
    /\ Len(query.rows) = 2
    /\ query.rows[1]["timestamp"] > query.rows[2]["timestamp"]

C15_CountMatches ==
    query.op = "count" =>
        /\ (query.aggOk /\ query.nextOk /\ query.decodeOk) =>
               query.n = Cardinality(MatchedDocs) /\ query.err = {}
        /\ (query.aggOk /\ query.nextOk /\ MatchedDocs = {}) =>
               query.n = 0 /\ query.err = {}

\* a count of the records of a user who has none
C15_Witness ==
    /\ query.op = "count"
    /\ query.aggOk /\ query.nextOk /\ query.decodeOk
    /\ MatchedDocs = {}
    /\ query.n = 0
    /\ query.err = {}

(***************************************************************************)
(* C16. count reports every failure to execute the query: when the         *)
(* aggregation or the advance of the cursor failed, count does not return  *)
(* 0 with no error.                                                        *)
(***************************************************************************)
C16_FailuresReported ==
    (query.op = "count" /\ (~query.aggOk \/ ~query.nextOk)) =>
        ~(query.n = 0 /\ query.err = {})

(***************************************************************************)
(* C17. The tier processSub resolves an active event's product to is       *)
(* defined for every product id: the tier the table stripePlans gives the  *)
(* product when it has it, the free tier when it does not, and resolving   *)
(* never fails: an error of the call comes from the lookup or the save.    *)
(***************************************************************************)
C17_EveryPlanResolves ==
    (call.op = "processSub" /\ call.s.Status = "active" /\ Matched # {}) =>
        LET resolved == IF call.s.Product \in DOMAIN stripePlans
                        THEN stripePlans[call.s.Product]
                        ELSE TierFree
        IN  /\ resolved \in Tiers
            /\ \A i \in DOMAIN trace :
                   trace[i].op = "UserSave" => trace[i].tier = resolved
            /\ NumSaves = 0 => \A uid \in Matched : call.users[uid].Tier = resolved
            /\ call.err # {} =>
                   \E i \in DOMAIN trace : trace[i].op = "UserSave" /\ ~trace[i].ok

\* a user the table had put on the highest tier is saved with the free tier
\* by an active event on a product the table does not have
C17_Witness ==
    /\ call.op = "processSub"
    /\ call.s.Status = "active"
    /\ call.s.Product = "prod_unknown"
    /\ call.err = {}
    /\ \E uid \in Matched :
           /\ call.users[uid].Tier = stripePlans["prod_J06QbGjCvmZQGZ"]
           /\ users[uid].Tier = TierFree
    /\ \E i \in DOMAIN trace : trace[i].op = "UserSave" /\ trace[i].tier = TierFree

(***************************************************************************)
(* C18. planForTier inverts the plan table: for a tier that a plan of the  *)
(* table maps to it returns a plan that tierForPlan resolves to that tier  *)
(* (for the free tier, the free plan), and for a tier that no plan maps to *)
(* it returns the empty id.                                                *)
(***************************************************************************)
C18_PlanForTierInverts ==
    call.op = "planForTier" =>
        LET t == call.tier
            plan == trace[1].plan
        IN  IF \E p \in DOMAIN stripePlans : stripePlans[p] = t
            THEN /\ plan \in DOMAIN stripePlans
                 /\ tierForPlan(plan) = t
                 /\ t = TierFree => plan = FreePlan
            ELSE plan = ""

\* planForTier(TierFree) returned the free plan
C18_Witness ==
    /\ call.op = "planForTier"
    /\ call.tier = TierFree
    /\ trace[1].plan = "prod_J2FBsxvEl4VoUK"
    /\ tierForPlan(trace[1].plan) = TierFree

(***************************************************************************)
(* What the claims on the webhook speak of, read off the last request.     *)
(***************************************************************************)
HookCall == call.op = "stripeWebhookHandler"

SubscriptionClass == Contains(hook.ev.Type, CustomerSubscription)
ScheduleClass == Contains(hook.ev.Type, SubscriptionSchedule)

\* the handler looked up no user and wrote none
NoLookupOrWrite == Len(trace) = 0 /\ ~hook.invoked /\ users = call.users

(***************************************************************************)
(* C19. stripeWebhookHandler calls processSub only for an event whose type *)
(* contains "customer.subscription" or "subscription_schedule": for an     *)
(* event of another type, and for a schedule event that carries no         *)
(* subscription id, it looks up no user and writes none.                   *)
(***************************************************************************)
C19_OnlySubscriptionEvents ==
    HookCall =>
        /\ (hook.invoked \/ Len(trace) > 0) => (SubscriptionClass \/ ScheduleClass)
        /\ (~SubscriptionClass /\ ~ScheduleClass) => NoLookupOrWrite
        /\ (~SubscriptionClass /\ ScheduleClass /\ hook.ev.Sub = "") => NoLookupOrWrite

\* a schedule event whose data parses and names no subscription
C19_Witness ==
    /\ HookCall
    /\ ScheduleClass
    /\ hook.ev.dataOk
    /\ hook.ev.Sub = ""
    /\ "Event doesn't refer to a subscription." \in hook.log
    /\ NoLookupOrWrite

(***************************************************************************)
(* C20. When processSub returns an error to stripeWebhookHandler, the      *)
(* handler logs it and writes the success response, never an error         *)
(* response.                                                               *)
(***************************************************************************)
C20_FailureOnlyLogged ==
    (HookCall /\ hook.invoked /\ hook.err # {}) =>
        /\ hook.response = "success"
        /\ "Failed to process sub:" \in hook.log

\* a schedule event whose subscription is fetched and whose UserSave fails
C20_Witness ==
    /\ HookCall
    /\ ScheduleClass
    /\ hook.invoked
    /\ \E i \in DOMAIN trace : trace[i].op = "UserSave" /\ ~trace[i].ok
    /\ hook.err # {}
    /\ hook.response = "success"

(***************************************************************************)
(* C21. When, as assignTier is called, the customer's plan on Stripe is    *)
(* the plan of the user's stored tier, then as it returns the two agree    *)
(* again unless the error returned carries "failed to revert the change on *)
(* Stripe": both are at the new tier when it returns nil, both are as they *)
(* were when it returns an error without the failed revert.                *)
(***************************************************************************)
PlanMatchesTier(us, cs, uid) == cs[StripeIdOf[uid]] \in planForTier(us[uid].Tier)

RevertFailed == "failed to revert the change on Stripe" \in call.err

C21_ErrorTellsConsistency ==
    (call.op = "assignTier" /\ PlanMatchesTier(call.users, call.customers, call.uid)) =>
        /\ ~RevertFailed => PlanMatchesTier(users, customers, call.uid)
        /\ call.err = {} => users[call.uid].Tier = call.tier
        /\ (call.err # {} /\ ~RevertFailed) =>
               /\ users[call.uid].Tier = call.users[call.uid].Tier
               /\ customers[StripeIdOf[call.uid]] = call.customers[StripeIdOf[call.uid]]

\* a call that began with plan and tier in agreement and left the customer
\* on the plan of the new tier and the user on the old tier, the failed
\* revert in its error
C21_Witness ==
    /\ call.op = "assignTier"
    /\ PlanMatchesTier(call.users, call.customers, call.uid)
    /\ ~PlanMatchesTier(users, customers, call.uid)
    /\ RevertFailed
    /\ customers[StripeIdOf[call.uid]] \in planForTier(call.tier)
    /\ users[call.uid].Tier = call.users[call.uid].Tier

(***************************************************************************)
(* What the claim on interleaved reconciliations speaks of.                *)
(***************************************************************************)
\* the (tier, expiry) a reconciliation read
ReadPair(me) == <<me.old.Tier, me.old.SubscribedUntil.sec>>

\* the (tier, expiry) its event gives the user it read
ComputedPair(me) ==
    IF me.s.Status = "active"
    THEN <<TableTier(me.s.Product), me.s.CurrentPeriodEnd>>
    ELSE <<TierFree, me.old.SubscribedUntil.sec>>

\* the (tier, expiry) of the i-th write
WrittenPair(i) == <<recon.log[i].Tier, recon.log[i].SubscribedUntil>>

\* the (tier, expiry) stored for the user the reconciliations are about
StoredPair == <<users["u1"].Tier, users["u1"].SubscribedUntil>>

\* the reconciliations that found their user
FoundUser == {p \in Reconcilers : recon.proc[p].pc # "start" /\ recon.proc[p].old.ID = "u1"}

(***************************************************************************)
(* C22. Two reconciliations of one user whose reads and conditional writes *)
(* interleave: a reconciliation reads a pair that was stored; every pair   *)
(* written is the pair its writer computed from the record it read and its *)
(* event; the stored pair is the pair written last, the initial one while  *)
(* nothing was written; and a reconciliation calls UserSave exactly when   *)
(* the pair it computed differs from the pair it read.                     *)
(***************************************************************************)
C22_LastWriterWins ==
    /\ \A p \in FoundUser :
           ReadPair(recon.proc[p]) \in
               {recon.first} \cup {WrittenPair(i) : i \in DOMAIN recon.log}
    /\ \A i \in DOMAIN recon.log :
           /\ recon.log[i].p \in FoundUser
           /\ WrittenPair(i) = ComputedPair(recon.proc[recon.log[i].p])
    /\ StoredPair = IF Len(recon.log) = 0 THEN recon.first
                                          ELSE WrittenPair(Len(recon.log))
    /\ \A p \in Reconcilers :
           LET me == recon.proc[p]
           IN  /\ me.called => p \in FoundUser /\ me.pc = "done"
               /\ (p \in FoundUser /\ me.pc = "done") =>
                      (me.called <=> ComputedPair(me) # ReadPair(me))

\* a lost update: both reconciliations read the initial record, the first
\* wrote a new tier and expiry, and the second, on an event that is not
\* active, wrote the free tier with the expiry it had read
C22_Witness ==
    /\ Len(recon.log) = 2
    /\ \A p \in Reconcilers :
           recon.proc[p].pc = "done" /\ ReadPair(recon.proc[p]) = recon.first
    /\ recon.proc[recon.log[2].p].s.Status # "active"
    /\ WrittenPair(1)[2] # recon.first[2]
    /\ StoredPair = <<TierFree, recon.first[2]>>
    /\ StoredPair = WrittenPair(2)

====
